---- MODULE Spec2Model ----
(***************************************************************************)
(* Model of export_ebay_reviews.py: the paginated GetFeedback fetch, the   *)
(* Judge.me export transform and the process entry point.                  *)
(*                                                                         *)
(* Python values are represented as follows.                               *)
(*   None / NaN / NaT   the string None (no data value of the model        *)
(*                      equals it), except for a timestamp, where the      *)
(*                      absent value is the empty tuple NaT                *)
(*   dict               a function from the keys that are present          *)
(*   list               a sequence                                         *)
(*   datetime           <<year, month, day>>                               *)
(*   DataFrame          a sequence of rows, each carrying its index label  *)
(***************************************************************************)
EXTENDS Integers, Sequences, FiniteSets, TLC

VARIABLES
    pc,         \* position of the process
    env,        \* the credential variables that are set (non-empty) in os.environ
    page,       \* fetch_all_feedback: page
    all_rows,   \* fetch_all_feedback: all_rows; the rows handed to the transform
    response,   \* fetch_all_feedback: the outcome of the latest client.execute
    calls,      \* the client's call log: page number and FeedbackDetail of each call
    stop,       \* which exit of the fetch loop was taken
    export_df,  \* the table returned by build_ebay_reviews_export
    message,    \* SystemExit message or traceback shown to the operator
    status,     \* process exit status, -1 while running
    file        \* the spreadsheet written by to_excel

vars == <<pc, env, page, all_rows, response, calls, stop, export_df, message, status, file>>

----------------------------------------------------------------------------
(* Bounds of the model *)

MaxPage == 2

MaxDetails == 2

MaxRows == 4

----------------------------------------------------------------------------
(* Python values *)

None == "<None>"

NaT == <<>>

\* dict.get(key): the value, or None when the key is absent
Get(d, key) == IF key \in DOMAIN d THEN d[key] ELSE None

\* sequences over S of length at most n
SeqUpTo(S, n) == UNION {[1..k -> S] : k \in 0..n}

----------------------------------------------------------------------------
(* FeedbackDetail entries the client can return *)

fbPositive ==
    [CommentText |-> "Great!", CommentType |-> "Positive",
     CommentTime |-> "2024-03-05T10:00:00Z", Role |-> "Seller",
     ItemID |-> "123", ItemTitle |-> "Widget", CommentingUser |-> "alice"]

fbNeutral ==
    [CommentText |-> "OK", CommentType |-> "Neutral", Role |-> "Seller",
     ItemID |-> "124", ItemTitle |-> "Sprocket", CommentingUser |-> "carol"]

fbNegative ==
    [CommentText |-> "", CommentType |-> "Negative",
     CommentTime |-> "2024-03-05T10:00:00Z", Role |-> "Seller",
     ItemTitle |-> "Cog", CommentingUser |-> "dave"]

fbWithdrawn ==
    [CommentText |-> "Order cancelled", CommentType |-> "Withdrawn",
     CommentTime |-> "not a date", Role |-> "Seller",
     ItemID |-> "456", ItemTitle |-> "Gadget", CommentingUser |-> "bob"]

fbBuyer ==
    [CommentText |-> "Fast payer", CommentType |-> "Positive",
     CommentTime |-> "2024-03-05T10:00:00Z", Role |-> "Buyer",
     ItemID |-> "789", ItemTitle |-> "Widget", CommentingUser |-> "erin"]

fbNoText ==
    [CommentType |-> "Positive", Role |-> "Seller",
     ItemID |-> "321", ItemTitle |-> "Widget", CommentingUser |-> "frank"]

fbNoType ==
    [CommentText |-> "Thanks", Role |-> "Seller",
     ItemID |-> "654", ItemTitle |-> "Widget", CommentingUser |-> "grace"]

\* an entry with no fields: the dict {}
fbEmpty == [k \in {} |-> None]

\* entries of the lists the client returns
ListEntries == {fbPositive, fbWithdrawn}

\* objects the client returns in place of a list
SingleEntries == {fbPositive, fbWithdrawn, fbEmpty}

\* entries of the rows handed directly to the transform
AllEntries ==
    {fbPositive, fbNeutral, fbNegative, fbWithdrawn, fbBuyer, fbNoText, fbNoType, fbEmpty}

----------------------------------------------------------------------------
(* Responses of client.execute *)

AbsentDetails == [shape |-> "absent", value |-> <<>>]

ListDetails(s) == [shape |-> "list", value |-> s]

DictDetails(d) == [shape |-> "dict", value |-> d]

\* the values of data["FeedbackDetailArray"]["FeedbackDetail"]
DetailValues ==
    {AbsentDetails}
    \cup {ListDetails(s) : s \in SeqUpTo(ListEntries, MaxDetails)}
    \cup {DictDetails(d) : d \in SingleEntries}

AbsentTotal == [tag |-> "absent", n |-> 0]

NumberTotal(n) == [tag |-> "number", n |-> n]

\* the values of data["PaginationResult"]["TotalNumberOfPages"]: no such key (or no
\* PaginationResult), or the numeral of a page count
TotalValues == {AbsentTotal} \cup {NumberTotal(n) : n \in 0..(MaxPage + 1)}

NoResponse == [kind |-> "none", details |-> AbsentDetails, total |-> AbsentTotal]

ErrorResponse == [kind |-> "error", details |-> AbsentDetails, total |-> AbsentTotal]

OkResponse(d, t) == [kind |-> "ok", details |-> d, total |-> t]

Responses == {ErrorResponse} \cup {OkResponse(d, t) : d \in DetailValues, t \in TotalValues}

----------------------------------------------------------------------------
(* fetch_all_feedback *)

\* date_parser.parse on the strings it accepts; any other string raises
ParsableTimes == [s \in {"2024-03-05T10:00:00Z"} |-> <<2024, 3, 5>>]

\* the defensive parse of CommentTime
ParseCommentTime(raw) ==
    IF raw = None \/ raw = "" THEN NaT
    ELSE IF raw \in DOMAIN ParsableTimes THEN ParsableTimes[raw]
    ELSE NaT

\* str(fb.get("ItemID") or "")
ItemIdOf(fb) == IF Get(fb, "ItemID") = None THEN "" ELSE Get(fb, "ItemID")

\* the row built from one FeedbackDetail entry
MakeRow(fb) ==
    [comment_text    |-> Get(fb, "CommentText"),
     comment_type    |-> Get(fb, "CommentType"),
     comment_time    |-> ParseCommentTime(Get(fb, "CommentTime")),
     role            |-> Get(fb, "Role"),
     item_id         |-> ItemIdOf(fb),
     item_title      |-> Get(fb, "ItemTitle"),
     commenting_user |-> Get(fb, "CommentingUser")]

\* `not details`: None, the empty list and the empty dict are falsy
Falsy(details) ==
    \/ details.shape = "absent"
    \/ details.shape = "list" /\ Len(details.value) = 0
    \/ details.shape = "dict" /\ DOMAIN details.value = {}

\* a dict becomes a one-element list
AsList(details) ==
    IF details.shape = "dict" THEN <<details.value>> ELSE details.value

\* a fault: the new rows are put in front of the accumulated ones
AppendRowsInFront(rows, entries) ==
    [i \in 1..Len(entries) |-> MakeRow(entries[i])] \o rows

\* the for loop: one row appended per entry, in entry order
AppendRows(rows, entries) ==
    rows \o [i \in 1..Len(entries) |-> MakeRow(entries[i])]

\* int(pagination_result.get("TotalNumberOfPages", page))
TotalPages(total, p) == IF total.tag = "absent" THEN p ELSE total.n

\* a fault: the failed page is requested again
OnConnectionErrorRetry(p, rows) ==
    [pc |-> "fetch", page |-> p, all_rows |-> rows, stop |-> ""]

\* a fault: the rows of the earlier pages are given up
OnConnectionErrorDropsRows(p, rows) ==
    [pc |-> "returned", page |-> p, all_rows |-> <<>>, stop |-> "error"]

\* the except ConnectionError branch: log and break
OnConnectionError(p, rows) ==
    [pc |-> "returned", page |-> p, all_rows |-> rows, stop |-> "error"]

\* the page increment
NextPage(p) == p + 1

\* a fault: one page too many
ReachedTotalOffByOne(p, total_pages) == p > total_pages

\* page >= total_pages
ReachedTotal(p, total_pages) == p >= total_pages

\* the decision after a page's rows were appended
AfterPage(p, rows, total) ==
    IF ReachedTotal(p, TotalPages(total, p))
    THEN [pc |-> "returned", page |-> p, all_rows |-> rows, stop |-> "pages"]
    ELSE [pc |-> "fetch", page |-> NextPage(p), all_rows |-> rows, stop |-> ""]

\* one iteration of the while loop on the response resp
LoopBody(p, rows, resp) ==
    IF resp.kind = "error" THEN OnConnectionError(p, rows)
    ELSE IF Falsy(resp.details)
    THEN [pc |-> "returned", page |-> p, all_rows |-> rows, stop |-> "empty"]
    ELSE AfterPage(p, AppendRows(rows, AsList(resp.details)), resp.total)

----------------------------------------------------------------------------
(* build_ebay_reviews_export *)

RATING_MAP == [t \in {"Positive", "Neutral", "Negative"} |->
                 CASE t = "Positive" -> 5 [] t = "Neutral" -> 3 [] OTHER -> 1]

EmptyInputError == "No feedback rows supplied to build_ebay_reviews_export"

NoMatchingRowsError == "No seller feedback with comments after filtering"

DefaultBaseUrl == "https://www.ebay.co.uk"

\* a fault: the emptiness checks never fire
NeverEmpty(df) == FALSE

\* df.empty
Empty(df) == Len(df) = 0

\* Series.notna()
NotNa(v) == v # None

\* Series.fillna("")
FillNa(v) == IF v = None THEN "" ELSE v

\* pd.DataFrame(rows): the rows under the index labels 0, 1, ...; pd.to_datetime
\* with errors="coerce" leaves a datetime as it is and turns None into NaT
DataFrame(rows) ==
    [i \in 1..Len(rows) |->
        [index |-> i - 1,
         comment_text |-> rows[i].comment_text, comment_type |-> rows[i].comment_type,
         comment_time |-> rows[i].comment_time, role |-> rows[i].role,
         item_id |-> rows[i].item_id, item_title |-> rows[i].item_title,
         commenting_user |-> rows[i].commenting_user]]

\* a fault: the role is not looked at
AnyRoleWithComment(r) == NotNa(r.comment_text) /\ NotNa(r.comment_type)

\* the boolean mask of the first filter
SellerWithComment(r) ==
    r.role = "Seller" /\ NotNa(r.comment_text) /\ NotNa(r.comment_type)

\* df[mask]: the selected rows keep their order and their index labels
FilterRows(df) == SelectSeq(df, SellerWithComment)

\* a fault: a value that is no key gets the middle rating
MapRatingWithDefault(comment_type) ==
    IF comment_type \in DOMAIN RATING_MAP
    THEN [isna |-> FALSE, value |-> RATING_MAP[comment_type]]
    ELSE [isna |-> FALSE, value |-> 3]

\* Series.map(RATING_MAP): a value that is no key maps to NaN
MapRating(comment_type) ==
    IF comment_type \in DOMAIN RATING_MAP
    THEN [isna |-> FALSE, value |-> RATING_MAP[comment_type]]
    ELSE [isna |-> TRUE, value |-> 0]

RatingNotNa(r) == ~MapRating(r.comment_type).isna

\* df[df["rating"].notna()]
DropUnrated(df) == SelectSeq(df, RatingNotNa)

Pad2(n) == IF n < 10 THEN "0" \o ToString(n) ELSE ToString(n)

\* dt.strftime("%d/%m/%Y"); NaT gives NaN
StrfTime(t) ==
    IF t = NaT THEN None
    ELSE Pad2(t[3]) \o "/" \o Pad2(t[2]) \o "/" \o ToString(t[1])

\* base has no trailing slash for rstrip("/") to remove
ProductUrl(base, item_id) ==
    IF item_id = "" THEN "" ELSE base \o "/itm/" \o item_id

\* one line of the Judge.me table, under the index label of its source row
ExportRow(r, base) ==
    [index          |-> r.index,
     title          |-> FillNa(r.item_title),
     body           |-> FillNa(r.comment_text),
     rating         |-> MapRating(r.comment_type).value,
     review_date    |-> FillNa(StrfTime(r.comment_time)),
     reviewer_name  |-> FillNa(r.commenting_user),
     reviewer_email |-> "",
     product_url    |-> FillNa(ProductUrl(base, r.item_id)),
     picture_urls   |-> "",
     product_id     |-> "",
     product_handle |-> ""]

\* the Judge.me columns of the rated rows
BuildTable(df, base) ==
    [i \in 1..Len(DropUnrated(df)) |-> ExportRow(DropUnrated(df)[i], base)]

\* build_ebay_reviews_export: the SystemExit it raises ("" for none) and its table
BuildEbayReviewsExport(rows, base) ==
    IF Empty(DataFrame(rows))
    THEN [raised |-> EmptyInputError, table |-> <<>>]
    ELSE IF Empty(FilterRows(DataFrame(rows)))
    THEN [raised |-> NoMatchingRowsError, table |-> <<>>]
    ELSE [raised |-> "", table |-> BuildTable(FilterRows(DataFrame(rows)), base)]

----------------------------------------------------------------------------
(* The process: main under the __main__ guard *)

CredentialNames == {"EBAY_APP_ID", "EBAY_DEV_ID", "EBAY_CERT_ID", "EBAY_TOKEN"}

MissingCredentials == "Missing required environment variables"

NoRowsReturned == "No feedback rows returned from eBay"

NoFile == [exists |-> FALSE, table |-> <<>>]

\* get_trading_client: the required variables that are unset or empty
Missing(e) == CredentialNames \ e

Init ==
    /\ pc = "main"
    /\ env \in SUBSET CredentialNames
    /\ page = 1
    /\ all_rows = <<>>
    /\ response = NoResponse
    /\ calls = <<>>
    /\ stop = ""
    /\ export_df = <<>>
    /\ message = ""
    /\ status = -1
    /\ file = NoFile

\* main, up to the call of fetch_all_feedback
GetTradingClient ==
    /\ pc = "main"
    /\ IF Missing(env) # {}
       THEN /\ pc' = "exited"
            /\ message' = MissingCredentials
            /\ status' = 1
       ELSE /\ pc' = "fetch"
            /\ UNCHANGED <<message, status>>
    /\ UNCHANGED <<env, page, all_rows, response, calls, stop, export_df, file>>

\* one iteration of the fetch loop: the request, the response and what the loop body
\* does with it. The code puts no limit on page; the model follows the loop for
\* MaxPage requests, and a state with pc = "fetch" after MaxPage requests is a loop
\* that has not stopped and requests the next page
FetchPage ==
    /\ pc = "fetch"
    /\ Len(calls) < MaxPage
    /\ \E resp \in Responses :
         LET r == LoopBody(page, all_rows, resp) IN
           /\ response' = resp
           /\ calls' = Append(calls, [page |-> page, kind |-> resp.kind, details |-> resp.details])
           /\ page' = r.page
           /\ all_rows' = r.all_rows
           /\ stop' = r.stop
           /\ pc' = r.pc
    /\ UNCHANGED <<env, export_df, message, status, file>>

\* main, from the return of fetch_all_feedback to the table
BuildExport ==
    /\ pc = "returned"
    /\ IF Len(all_rows) = 0
       THEN /\ pc' = "exited"
            /\ message' = NoRowsReturned
            /\ status' = 1
            /\ UNCHANGED export_df
       ELSE LET b == BuildEbayReviewsExport(all_rows, DefaultBaseUrl) IN
            IF b.raised # ""
            THEN /\ pc' = "exited"
                 /\ message' = b.raised
                 /\ status' = 1
                 /\ UNCHANGED export_df
            ELSE /\ pc' = "write"
                 /\ export_df' = b.table
                 /\ UNCHANGED <<message, status>>
    /\ UNCHANGED <<env, page, all_rows, response, calls, stop, file>>

\* main, from the output folder to "Done"
WriteExcel ==
    /\ pc = "write"
    /\ file' = [exists |-> TRUE, table |-> export_df]
    /\ message' = "Done"
    /\ status' = 0
    /\ pc' = "exited"
    /\ UNCHANGED <<env, page, all_rows, response, calls, stop, export_df>>

Next == GetTradingClient \/ FetchPage \/ BuildExport \/ WriteExcel

Spec == Init /\ [][Next]_vars

\* the loop is sequential code: once entered, its next iteration is run
FairSpec == Spec /\ WF_vars(FetchPage)

----------------------------------------------------------------------------
(* build_ebay_reviews_export called on its own, on any rows *)

RowSamples == {MakeRow(fb) : fb \in AllEntries}

BuildInit ==
    /\ pc = "call"
    /\ all_rows \in SeqUpTo(RowSamples, MaxRows)
    /\ env = CredentialNames
    /\ page = 1
    /\ response = NoResponse
    /\ calls = <<>>
    /\ stop = ""
    /\ export_df = <<>>
    /\ message = ""
    /\ status = -1
    /\ file = NoFile

CallBuild ==
    /\ pc = "call"
    /\ LET b == BuildEbayReviewsExport(all_rows, DefaultBaseUrl) IN
         /\ message' = b.raised
         /\ export_df' = b.table
         /\ pc' = IF b.raised # "" THEN "raised" ELSE "built"
    /\ UNCHANGED <<env, page, all_rows, response, calls, stop, status, file>>

BuildNext == CallBuild

BuildSpec == BuildInit /\ [][BuildNext]_vars

----------------------------------------------------------------------------
(* Properties of fetch_all_feedback *)

\* the entries of a call the loop turned into rows: none for a failed call and for
\* an empty page; an object without fields is taken for an empty page
EntriesOfCall(c) ==
    IF c.kind # "ok" THEN <<>>
    ELSE IF c.details.shape = "list" THEN c.details.value
    ELSE IF c.details.shape = "dict" /\ DOMAIN c.details.value # {} THEN <<c.details.value>>
    ELSE <<>>

RECURSIVE RowsOfCalls(_)
\* one row per entry of the calls cs, in call order and entry order
RowsOfCalls(cs) ==
    IF Len(cs) = 0 THEN <<>>
    ELSE RowsOfCalls(SubSeq(cs, 1, Len(cs) - 1))
         \o [i \in 1..Len(EntriesOfCall(cs[Len(cs)])) |-> MakeRow(EntriesOfCall(cs[Len(cs)])[i])]

IsPrefix(s, t) == Len(s) <= Len(t) /\ SubSeq(t, 1, Len(s)) = s

\* the total the latest response reports, the current page when it reports none
ReportedTotal ==
    IF response.total.tag = "absent" THEN calls[Len(calls)].page ELSE response.total.n

\* the latest call returned a page the loop took rows from
RowsTaken == response.kind = "ok" /\ EntriesOfCall(calls[Len(calls)]) # <<>>

C2_ErrorReturnsAccumulatedRows ==
    (stop = "error" /\ Len(calls) > 1) =>
        /\ pc \in {"returned", "write", "exited"}
        /\ calls[Len(calls)].kind = "error"
        /\ page = Len(calls)
        /\ all_rows = RowsOfCalls(SubSeq(calls, 1, Len(calls) - 1))

\* a transport error on page 2 after a page 1 of two different entries
C2_Witness ==
    /\ stop = "error"
    /\ pc = "returned"
    /\ Len(calls) = 2
    /\ all_rows = <<MakeRow(fbWithdrawn), MakeRow(fbPositive)>>

\* C3 as claimed: after a successful page p reporting total T (p itself when it
\* reports none), page p + 1 is up next if p < T and the loop has stopped if p >= T.
C3_StopsExactlyAtTotal ==
    (response.kind = "ok") =>
        IF calls[Len(calls)].page < ReportedTotal
        THEN pc = "fetch" /\ page = calls[Len(calls)].page + 1
        ELSE pc # "fetch"

\* C3 as amended: the same for a successful page the loop took rows from; a
\* successful page that is empty stops the loop whatever total it reports.
C3_StopsAtTotalAfterRows ==
    (response.kind = "ok") =>
        IF RowsTaken /\ calls[Len(calls)].page < ReportedTotal
        THEN pc = "fetch" /\ page = calls[Len(calls)].page + 1
        ELSE pc # "fetch" /\ page = calls[Len(calls)].page

\* page 1 reported more pages and was followed by page 2, which reported no more
C3_Witness ==
    /\ Len(calls) = 2
    /\ RowsTaken
    /\ stop = "pages"
    /\ calls[1].kind = "ok"
    /\ response.total = NumberTotal(2)

\* C8: a page whose FeedbackDetail is the single object d leaves the loop where the
\* page with the list [d] and the same total would leave it.
C8_SingleObjectAsOneElementList ==
    [][(pc = "fetch" /\ calls' # calls /\ response'.kind = "ok"
            /\ response'.details.shape = "dict")
        => LET r == LoopBody(page, all_rows,
                        OkResponse(ListDetails(<<response'.details.value>>), response'.total))
           IN  /\ all_rows' = r.all_rows
               /\ page' = r.page
               /\ pc' = r.pc]_vars

\* C10: the calls made are for pages 1, 2, ... in that order, the running loop is at
\* the page after the last call, the rows are one per entry of the calls in call and
\* entry order, and a step only appends to the rows.
C10_PagesInOrderRowsAppendOnly ==
    /\ [](/\ \A i \in 1..Len(calls) : calls[i].page = i
          /\ page = IF pc = "fetch" THEN Len(calls) + 1 ELSE IF Len(calls) = 0 THEN 1 ELSE Len(calls)
          /\ all_rows = RowsOfCalls(calls))
    /\ [][/\ IsPrefix(all_rows, all_rows')
          /\ IsPrefix(calls, calls')
          /\ Len(calls') <= Len(calls) + 1]_vars

\* two pages of two entries each, in different orders
C10_Witness ==
    /\ Len(calls) = 2
    /\ calls[1].details = ListDetails(<<fbPositive, fbWithdrawn>>)
    /\ calls[2].details = ListDetails(<<fbWithdrawn, fbPositive>>)
    /\ Len(all_rows) = 4

----------------------------------------------------------------------------
(* Properties of build_ebay_reviews_export *)

RatedTypes == {"Positive", "Neutral", "Negative"}

\* the input row is a Seller row with a comment text and a comment type
Commented(row) ==
    row.role = "Seller" /\ row.comment_text # None /\ row.comment_type # None

\* the positions of the input rows that belong in the output
Kept == {i \in 1..Len(all_rows) : Commented(all_rows[i]) /\ all_rows[i].comment_type \in RatedTypes}

\* the input row behind line k of the table
Source(k) == all_rows[export_df[k].index + 1]

\* C4: when some row passes the Seller/comment filter and none of those has a rated
\* comment type, the call fails with NoMatchingRowsError.
C4_NothingRatedFails ==
    (/\ pc \in {"built", "raised"}
     /\ \E i \in 1..Len(all_rows) : Commented(all_rows[i])
     /\ Kept = {})
        => (pc = "raised" /\ message = NoMatchingRowsError)

\* C6: every line of the table has the rating 5, 3 or 1 of its row's Positive,
\* Neutral or Negative comment type, and no row of another type is behind a line.
C6_RatingsFollowTheTable ==
    (pc = "built") =>
        /\ \A k \in 1..Len(export_df) :
              \/ Source(k).comment_type = "Positive" /\ export_df[k].rating = 5
              \/ Source(k).comment_type = "Neutral" /\ export_df[k].rating = 3
              \/ Source(k).comment_type = "Negative" /\ export_df[k].rating = 1
        /\ \A i \in 1..Len(all_rows) :
              all_rows[i].comment_type \notin RatedTypes
                  => \A k \in 1..Len(export_df) : export_df[k].index # i - 1

\* a table with all three ratings, from an input with an unrated row among them
C6_Witness ==
    /\ pc = "built"
    /\ {export_df[k].rating : k \in 1..Len(export_df)} = {5, 3, 1}
    /\ \E i \in 1..Len(all_rows) : all_rows[i].comment_type = "Withdrawn"

\* C7: the table has one line for each row to keep and no other, in input order:
\* the lines' sources are the kept positions in increasing order, repeated rows
\* included, and a line carries its source's text and user.
C7_StableFilterMap ==
    (pc \in {"built", "raised"}) =>
        /\ Kept # {} => pc = "built"
        /\ Len(export_df) = Cardinality(Kept)
        /\ \A k \in 1..Len(export_df) :
              /\ export_df[k].index + 1 \in Kept
              /\ export_df[k].body = Source(k).comment_text
              /\ export_df[k].reviewer_name = Source(k).commenting_user
        /\ \A k \in 1..(Len(export_df) - 1) : export_df[k].index < export_df[k + 1].index

\* a Buyer row between two equal Seller rows: two lines, the Buyer row dropped
C7_Witness ==
    /\ pc = "built"
    /\ Len(all_rows) = 3
    /\ all_rows[1] = all_rows[3]
    /\ all_rows[2].role = "Buyer"
    /\ Len(export_df) = 2

\* C9: an empty input fails with EmptyInputError, a non-empty input without a
\* commented Seller row fails with NoMatchingRowsError, and neither gives a table.
C9_EmptyInputsFail ==
    (pc \in {"built", "raised"}) =>
        /\ Len(all_rows) = 0
              => (pc = "raised" /\ message = EmptyInputError /\ export_df = <<>>)
        /\ (Len(all_rows) > 0 /\ \A i \in 1..Len(all_rows) : ~Commented(all_rows[i]))
              => (pc = "raised" /\ message = NoMatchingRowsError /\ export_df = <<>>)

\* a call on rows of which none is a commented Seller row has failed
C9_Witness ==
    /\ pc = "raised"
    /\ Len(all_rows) = 2
    /\ all_rows[1].role = "Buyer"
    /\ all_rows[2].comment_text = None
    /\ message = NoMatchingRowsError

----------------------------------------------------------------------------
(* Properties of the process *)

\* the run is one that must fail: credentials missing, no row fetched, or no row
\* left after filtering
Unrecoverable ==
    \/ Missing(env) # {}
    \/ Len(all_rows) = 0
    \/ Kept = {}

\* C5: a finished run that must fail has a non-zero status, a message and no file;
\* every other finished run has written the file and has status zero.
C5_ExitStatus ==
    (pc = "exited") =>
        IF Unrecoverable
        THEN status # 0 /\ message # "" /\ ~file.exists
        ELSE status = 0 /\ file.exists

====
